---- MODULE Spec2Model ----
(***************************************************************************)
(* Model of src/capi/nspy_glue.c, the C glue between the Neuroshare vendor *)
(* libraries and the Python binding.                                       *)
(*                                                                         *)
(* One action per public function of NativeMethods.  An action draws the   *)
(* caller's arguments and the answers of the loader and of the vendor      *)
(* library from small sets, runs the C function as an operator and stores  *)
(* what the call did in `last`: the result, the native entry points it     *)
(* called in order, the pointer it called through when that pointer was    *)
(* null, and the buffers it allocated, freed and handed to the caller.     *)
(*                                                                         *)
(* Undefined behaviour is a choice over outcomes.  A call through a null   *)
(* entry point ends the process ("crash").  A read of an NsLibrary record  *)
(* that library_close has freed either ends the process or finds the old   *)
(* contents still in place and goes on with them.  Allocation is assumed   *)
(* to succeed.                                                             *)
(***************************************************************************)
EXTENDS Integers, Sequences, FiniteSets, TLC

VARIABLES lib, crashed, last, bigEndian, dec

vars == <<lib, crashed, last, bigEndian, dec>>

(* ------------------------------ bounds --------------------------------- *)

MaxLibs == 1        \* library handles the caller can hold
MaxWidth == 5       \* largest declared width / event buffer capacity tried
MaxSources == 2     \* largest dwSourceCount the vendor library reports
MaxSamples == 2     \* largest sample / index count the caller requests

(* ----------------------------- constants ------------------------------- *)

TwoPow8 == 256
TwoPow16 == 65536

\* the entry points of NsLibrary
Symbols ==
  {"GetLibraryInfo", "OpenFile", "CloseFile", "GetFileInfo", "GetEntityInfo",
   "GetEventInfo", "GetEventData", "GetAnalogInfo", "GetAnalogData",
   "GetSegmentInfo", "GetSegmentSourceInfo", "GetSegmentData",
   "GetNeuralInfo", "GetNeuralData", "GetIndexByTime", "GetTimeByIndex",
   "GetLastErrorMsg"}

\* what a vendor library may leave out: nothing, or one entry point
MissingChoices == {{}} \cup {{s} : s \in Symbols}

\* ns_RESULT values; every value but ns_OK is an error
ns_OK == "ns_OK"
ns_LIBERROR == "ns_LIBERROR"
Results == {ns_OK, ns_LIBERROR}

\* bytes the decoders are tried on
ByteVals == {0, 1, 128, 255}
Buffers == [1..4 -> ByteVals]

(* --------------------------- 32-bit values ----------------------------- *)

\* A uint32 is kept as its two 16-bit halves <<high, low>>, so that the
\* whole 32-bit range is represented exactly.
U32(high, low) == <<high, low>>

\* a value below 2^16 widened to uint32
Widen(x) == U32(0, x)

\* (uint16) of a uint32
Cast16(v) == v[2]

\* (uint8) of a uint32
Cast8(v) == v[2] % TwoPow8

(* --------------------------- numeric decoders -------------------------- *)

\* *(uint8 *) data
Load8(data) == data[1]

\* *(uint16 *) data, in the byte order of the build
Load16(data) ==
  IF bigEndian THEN data[1] * TwoPow8 + data[2]
               ELSE data[1] + data[2] * TwoPow8

\* *(uint32 *) data, in the byte order of the build
Load32(data) ==
  IF bigEndian
    THEN U32(data[1] * TwoPow8 + data[2], data[3] * TwoPow8 + data[4])
    ELSE U32(data[3] + data[4] * TwoPow8, data[1] + data[2] * TwoPow8)

\* uint8 ret
uint8_from_data(data, data_len) ==
  IF data_len = 1 THEN Load8(data)
  ELSE IF data_len = 2 THEN Load8(data)
  ELSE IF data_len = 4 THEN Cast8(Load32(data))
  ELSE 0

\* uint16 ret
uint16_from_data(data, data_len) ==
  IF data_len = 1 THEN Load8(data)
  ELSE IF data_len = 2 THEN Load16(data)
  ELSE IF data_len = 4 THEN Cast16(Load32(data))
  ELSE 0

\* The local that holds the result is declared uint16: every branch is cut
\* to 16 bits on assignment, and the return statement widens it to uint32.
uint32_from_data(data, data_len) ==
  IF data_len = 1 THEN Widen(Load8(data) % TwoPow16)
  ELSE IF data_len = 2 THEN Widen(Load16(data) % TwoPow16)
  ELSE IF data_len = 4 THEN Widen(Cast16(Load32(data)))
  ELSE Widen(0)

(* ------------------------- what a call leaves -------------------------- *)

\* a handle slot the caller has not been given yet
NoLib == [status |-> "unused", table |-> {}]

NoMsg == [fn |-> "none", arg |-> 0]

\* no decoder has been applied
NoDec == [fn |-> "none", data |-> <<0, 0, 0, 0>>, data_len |-> 0,
          ret |-> Widen(0)]

\* the native calls made so far and the null pointer called through, if any
St0 == [calls |-> <<>>, null |-> "none"]

NoCall ==
  [op |-> "none", h |-> 0, argsOk |-> TRUE, closedBefore |-> FALSE,
   derefFreed |-> FALSE, result |-> "none", calls |-> <<>>,
   nullCall |-> "none", msg |-> NoMsg, allocs |-> 0, frees |-> 0,
   handed |-> 0, in |-> <<>>, out |-> <<>>]

\* the function returned NULL after a failed argument check
ArgError ==
  [result |-> "ArgumentError", calls |-> <<>>, nullCall |-> "none",
   msg |-> NoMsg, allocs |-> 0, frees |-> 0, handed |-> 0, out |-> <<>>]

\* the process ended inside the function
Crash(st, allocs) ==
  [result |-> "crash", calls |-> st.calls, nullCall |-> st.null,
   msg |-> NoMsg, allocs |-> allocs, frees |-> 0, handed |-> 0, out |-> <<>>]

\* the function returned NULL with the exception `kind` set
Failure(kind, st, msg, allocs, frees) ==
  [result |-> kind, calls |-> st.calls, nullCall |-> "none",
   msg |-> msg, allocs |-> allocs, frees |-> frees, handed |-> 0,
   out |-> <<>>]

\* the function returned the object `out`
Success(st, allocs, frees, handed, out) ==
  [result |-> "ok", calls |-> st.calls, nullCall |-> "none",
   msg |-> NoMsg, allocs |-> allocs, frees |-> frees, handed |-> handed,
   out |-> out]

\* lib->fn (...): a call through the pointer stored for fn; arg is the
\* argument the model keeps, res the status the vendor library answers
Invoke(tbl, st, fn, arg, res) ==
  IF st.null # "none" THEN st
  ELSE IF fn \notin tbl THEN [st EXCEPT !.null = fn]
  ELSE [st EXCEPT !.calls = Append(@, [fn |-> fn, arg |-> arg, res |-> res])]

RECURSIVE LastError(_)
\* the text ns_GetLastErrorMsg hands out: that of the latest failed call
LastError(calls) ==
  IF calls = <<>> THEN NoMsg
  ELSE LET c == calls[Len(calls)] IN
       IF c.res # ns_OK THEN [fn |-> c.fn, arg |-> c.arg]
       ELSE LastError(SubSeq(calls, 1, Len(calls) - 1))

check_result_is_error(res, tbl, st) ==
  IF res = ns_OK THEN [isErr |-> FALSE, st |-> st, msg |-> NoMsg]
  ELSE LET st2 == Invoke(tbl, st, "GetLastErrorMsg", 0, ns_OK) IN
       [isErr |-> TRUE, st |-> st2, msg |-> LastError(st.calls)]

\* what reading the NsLibrary record behind a handle can do: a live record
\* is read; a freed one ends the process or still shows its old contents
Deref(status) == IF status = "freed" THEN {"crash", "stale"} ELSE {"live"}

\* the handles the caller has been given
Held == {h \in 1..MaxLibs : lib[h].status # "unused"}

(* ------------------------ Library Handle Manager ----------------------- *)

\* a call of the dynamic loader, kept in the same trace as the native calls
Loader(fn, ok) ==
  [fn |-> fn, arg |-> 0, res |-> IF ok THEN ns_OK ELSE ns_LIBERROR]

\* library_open as it would be if a missing entry point made it fail
library_open_strict(parsed, dlh, exported) ==
  IF ~parsed THEN ArgError
  ELSE IF ~dlh \/ ~(Symbols \subseteq exported)
    THEN Failure("LoadError", [St0 EXCEPT !.calls = <<Loader("dlopen", dlh)>>],
                 NoMsg, 0, 0)
  ELSE Success([St0 EXCEPT !.calls = <<Loader("dlopen", TRUE)>>
                                       \o [i \in 1..Cardinality(Symbols) |->
                                             Loader("dlsym", TRUE)]],
               1, 0, 1, [table |-> {s \in Symbols : s \in exported}])

\* parsed: PyArg_ParseTuple accepted the arguments; dlh: dlopen returned a
\* handle; exported: the entry points the library at the path exports
library_open(parsed, dlh, exported) ==
  IF ~parsed THEN ArgError
  ELSE IF ~dlh
    THEN Failure("LoadError", [St0 EXCEPT !.calls = <<Loader("dlopen", FALSE)>>],
                 NoMsg, 0, 0)
  ELSE Success([St0 EXCEPT !.calls = <<Loader("dlopen", TRUE)>>
                                       \o [i \in 1..Cardinality(Symbols) |->
                                             Loader("dlsym", TRUE)]],
               1, 0, 1, [table |-> {s \in Symbols : s \in exported}])

\* library_close as it would be if free (lib) came before the test of what
\* dlclose returned
library_close_freeing(argsOk, mem, dlres) ==
  IF ~argsOk THEN ArgError
  ELSE IF mem = "crash" THEN Crash(St0, 0)
  ELSE IF ~dlres
    THEN Failure("UnloadError",
                 [St0 EXCEPT !.calls = <<Loader("dlclose", FALSE)>>],
                 NoMsg, 0, 1)
  ELSE Success([St0 EXCEPT !.calls = <<Loader("dlclose", TRUE)>>],
               0, 1, 0, <<>>)

\* mem: what reading the record does; dlres: TRUE when dlclose returns 0
library_close(argsOk, mem, dlres) ==
  IF ~argsOk THEN ArgError
  ELSE IF mem = "crash" THEN Crash(St0, 0)
  ELSE IF ~dlres
    THEN Failure("UnloadError",
                 [St0 EXCEPT !.calls = <<Loader("dlclose", FALSE)>>],
                 NoMsg, 0, 0)
  ELSE Success([St0 EXCEPT !.calls = <<Loader("dlclose", TRUE)>>],
               0, 1, 0, <<>>)

(* --------------------- functions with one native call ------------------ *)

\* the shape shared by the functions that check their arguments, make one
\* native call, translate its status and build a value from its answer
OneCall(argsOk, mem, tbl, fn, res, out) ==
  IF ~argsOk THEN ArgError
  ELSE IF mem = "crash" THEN Crash(St0, 0)
  ELSE LET st == Invoke(tbl, St0, fn, 0, res)
           chk == check_result_is_error(res, tbl, st)
       IN IF st.null # "none" THEN Crash(st, 0)
          ELSE IF chk.st.null # "none" THEN Crash(chk.st, 0)
          ELSE IF chk.isErr THEN Failure("NativeCallError", chk.st, chk.msg, 0, 0)
          ELSE Success(chk.st, 0, 0, 0, out)

do_get_library_info(argsOk, mem, tbl, res) ==
  OneCall(argsOk, mem, tbl, "GetLibraryInfo", res, <<"library info">>)

do_close_file(argsOk, mem, tbl, res) ==
  OneCall(argsOk, mem, tbl, "CloseFile", res, <<>>)

do_get_index_by_time(argsOk, mem, tbl, res) ==
  OneCall(argsOk, mem, tbl, "GetIndexByTime", res, <<"index">>)

do_get_time_by_index(argsOk, mem, tbl, res) ==
  OneCall(argsOk, mem, tbl, "GetTimeByIndex", res, <<"timepoint">>)

\* res: status of ns_OpenFile; ires: status of ns_GetFileInfo
get_and_add_file_info(tbl, st, ires) ==
  [res |-> ires, st |-> Invoke(tbl, st, "GetFileInfo", 0, ires)]

do_open_file(argsOk, mem, tbl, res, ires) ==
  IF ~argsOk THEN ArgError
  ELSE IF mem = "crash" THEN Crash(St0, 0)
  ELSE LET st == Invoke(tbl, St0, "OpenFile", 0, res)
           inf == IF res = ns_OK THEN get_and_add_file_info(tbl, st, ires)
                  ELSE [res |-> res, st |-> st]
           chk == check_result_is_error(inf.res, tbl, inf.st)
       IN IF inf.st.null # "none" THEN Crash(inf.st, 0)
          ELSE IF chk.st.null # "none" THEN Crash(chk.st, 0)
          ELSE IF chk.isErr THEN Failure("NativeCallError", chk.st, chk.msg, 0, 0)
          ELSE Success(chk.st, 0, 0, 0, <<"file id", "file info">>)

(* --------------------------- Metadata Accessors ------------------------ *)

EntityTypes == {"EVENT", "ANALOG", "SEGMENT", "NEURALEVENT", "UNKNOWN"}

\* the slot PyList_New leaves for PyList_SetItem to fill
NullSlot == [set |-> FALSE, filled |-> FALSE, src |-> 0]

\* the dict PyDict_New returns
EmptyDict == [set |-> TRUE, filled |-> FALSE, src |-> 0]

\* the dict once the fields of the ns_SEGSOURCEINFO the vendor library
\* returned for source_id have been added
SourceDict(source_id) == [set |-> TRUE, filled |-> TRUE, src |-> source_id]

\* the info entry point the switch of do_get_entity_info picks
InfoFn(etype) ==
  IF etype = "EVENT" THEN "GetEventInfo"
  ELSE IF etype = "ANALOG" THEN "GetAnalogInfo"
  ELSE IF etype = "SEGMENT" THEN "GetSegmentInfo"
  ELSE "GetNeuralInfo"

\* get_and_add_event_info, get_and_add_analog_info, get_and_add_neural_info
get_and_add_info(tbl, st, etype, kres) ==
  [res |-> kres, st |-> Invoke(tbl, st, InfoFn(etype), 0, kres),
   SourceCount |-> 0, SourceInfos |-> <<>>, hasSources |-> FALSE]

get_and_add_segment_source_info(tbl, st, source_id, res, list) ==
  LET list1 == [list EXCEPT ![source_id + 1] = EmptyDict]
      st1 == Invoke(tbl, st, "GetSegmentSourceInfo", source_id, res)
  IN IF st1.null # "none" THEN [res |-> res, st |-> st1, list |-> list1]
     ELSE IF res # ns_OK THEN [res |-> res, st |-> st1, list |-> list1]
     ELSE [res |-> ns_OK, st |-> st1,
           list |-> [list1 EXCEPT ![source_id + 1] = SourceDict(source_id)]]

RECURSIVE SourceLoop(_, _, _, _, _, _)
\* for (i = 0; i < info.dwSourceCount; i++): the value the call returns is
\* dropped, so the loop goes on whatever a source answers
SourceLoop(tbl, st, i, n, sres, list) ==
  IF i >= n \/ st.null # "none" THEN [st |-> st, list |-> list]
  ELSE LET r == get_and_add_segment_source_info(tbl, st, i, sres[i + 1], list)
       IN SourceLoop(tbl, r.st, i + 1, n, sres, r.list)

\* kres: status of ns_GetSegmentInfo; n: dwSourceCount; sres[i+1]: status
\* of ns_GetSegmentSourceInfo for source i
get_and_add_segment_info(tbl, st, kres, n, sres) ==
  LET st1 == Invoke(tbl, st, "GetSegmentInfo", 0, kres) IN
  IF st1.null # "none" \/ kres # ns_OK
    THEN [res |-> kres, st |-> st1, SourceCount |-> 0, SourceInfos |-> <<>>,
          hasSources |-> FALSE]
  ELSE LET loop == SourceLoop(tbl, st1, 0, n, sres, [i \in 1..n |-> NullSlot])
       IN [res |-> kres, st |-> loop.st, SourceCount |-> n,
           SourceInfos |-> loop.list, hasSources |-> TRUE]

\* res: status of ns_GetEntityInfo; etype: dwEntityType it reported
do_get_entity_info(argsOk, mem, tbl, res, etype, kres, n, sres) ==
  IF ~argsOk THEN ArgError
  ELSE IF mem = "crash" THEN Crash(St0, 0)
  ELSE LET st == Invoke(tbl, St0, "GetEntityInfo", 0, res)
           chk == check_result_is_error(res, tbl, st)
       IN IF st.null # "none" THEN Crash(st, 0)
          ELSE IF chk.st.null # "none" THEN Crash(chk.st, 0)
          ELSE IF chk.isErr
            THEN Failure("NativeCallError", chk.st, chk.msg, 0, 0)
          ELSE LET inf == IF etype = "SEGMENT"
                            THEN get_and_add_segment_info(tbl, st, kres, n, sres)
                          ELSE IF etype = "UNKNOWN"
                            THEN [res |-> res, st |-> st, SourceCount |-> 0,
                                  SourceInfos |-> <<>>, hasSources |-> FALSE]
                          ELSE get_and_add_info(tbl, st, etype, kres)
                   chk2 == check_result_is_error(inf.res, tbl, inf.st)
               IN IF inf.st.null # "none" THEN Crash(inf.st, 0)
                  ELSE IF chk2.st.null # "none" THEN Crash(chk2.st, 0)
                  ELSE IF chk2.isErr
                    THEN Failure("NativeCallError", chk2.st, chk2.msg, 0, 0)
                  ELSE Success(chk2.st, 0, 0, 0,
                               [EntityType |-> etype,
                                hasSources |-> inf.hasSources,
                                SourceCount |-> inf.SourceCount,
                                SourceInfos |-> inf.SourceInfos])

(* ----------------------------- Data Accessors -------------------------- *)

EventTypes == {"TEXT", "CSV", "BYTE", "WORD", "DWORD", "OTHER"}

\* A Python int argument n = high * 2^32 + low.
PyInt(high, low) == [high |-> high, low |-> low]

\* (uint32) PyInt_AsUnsignedLongMask (obj): the low 32 bits
AsUint32(obj) == obj.low

\* the sample / index counts the caller asks for; the last one is 2^32 + 1
SampleArgs == {PyInt(0, k) : k \in 0..MaxSamples} \cup {PyInt(1, 1)}

\* double time stamps, counted in halves: 3 is 1.5
TimeVals == {2, 3}

\* PyInt_FromLong (time_stamp): the double is converted to long, which
\* drops its fraction
DoubleToLong(t) == 2 * (t \div 2)

\* the bytes the vendor library leaves in an event buffer of `size` bytes
EventData(size) == {[i \in 1..size |-> i], [i \in 1..size |-> 255]}

\* the event buffer capacities the caller passes
EventSizes == {4, MaxWidth}

\* the switch as it would be if the default case decoded the buffer as a
\* byte instead of taking Py_None
EventPayload_decoding(event_type, buffer, data_ret_size) ==
  IF event_type \in {"TEXT", "CSV"}
    THEN [kind |-> "string", val |-> SubSeq(buffer, 1, data_ret_size)]
  ELSE IF event_type = "WORD"
    THEN [kind |-> "int", val |-> Widen(uint16_from_data(buffer, data_ret_size))]
  ELSE IF event_type = "DWORD"
    THEN [kind |-> "int", val |-> uint32_from_data(buffer, data_ret_size)]
  ELSE [kind |-> "int", val |-> Widen(uint8_from_data(buffer, data_ret_size))]

\* the switch on event_type; buffer holds data_size >= 4 bytes, of which
\* the vendor library reports data_ret_size <= data_size as written
EventPayload(event_type, buffer, data_ret_size) ==
  IF event_type \in {"TEXT", "CSV"}
    THEN [kind |-> "string", val |-> SubSeq(buffer, 1, data_ret_size)]
  ELSE IF event_type = "BYTE"
    THEN [kind |-> "int", val |-> Widen(uint8_from_data(buffer, data_ret_size))]
  ELSE IF event_type = "WORD"
    THEN [kind |-> "int", val |-> Widen(uint16_from_data(buffer, data_ret_size))]
  ELSE IF event_type = "DWORD"
    THEN [kind |-> "int", val |-> uint32_from_data(buffer, data_ret_size)]
  ELSE [kind |-> "None", val |-> <<>>]

\* do_get_event_data as it would be if malloc (data_size) came before the
\* check of the argument types
do_get_event_data_eager(argsOk, mem, tbl, event_type, res, buffer, data_ret_size, time_stamp) ==
  IF ~argsOk THEN [ArgError EXCEPT !.allocs = 1]
  ELSE IF mem = "crash" THEN Crash(St0, 0)
  ELSE LET st == Invoke(tbl, St0, "GetEventData", 0, res)
           chk == check_result_is_error(res, tbl, st)
       IN IF st.null # "none" THEN Crash(st, 1)
          ELSE IF chk.st.null # "none" THEN Crash(chk.st, 1)
          ELSE IF chk.isErr
            THEN Failure("NativeCallError", chk.st, chk.msg, 1, 1)
          ELSE Success(chk.st, 1, 1, 0,
                       [timestamp |-> time_stamp,
                        payload |-> EventPayload(event_type, buffer,
                                                 data_ret_size)])

do_get_event_data(argsOk, mem, tbl, event_type, res, buffer, data_ret_size, time_stamp) ==
  IF ~argsOk THEN ArgError
  ELSE IF mem = "crash" THEN Crash(St0, 0)
  ELSE LET st == Invoke(tbl, St0, "GetEventData", 0, res)
           chk == check_result_is_error(res, tbl, st)
       IN IF st.null # "none" THEN Crash(st, 1)
          ELSE IF chk.st.null # "none" THEN Crash(chk.st, 1)
          ELSE IF chk.isErr
            THEN Failure("NativeCallError", chk.st, chk.msg, 1, 1)
          ELSE Success(chk.st, 1, 1, 0,
                       [timestamp |-> time_stamp,
                        payload |-> EventPayload(event_type, buffer,
                                                 data_ret_size)])

\* the length of the array PyArray_New makes for dims[0] = count
AnalogArrayLen(count) == count

\* do_get_analog_data as it would be if it returned the count it asked for
\* in place of the count the vendor library wrote to cont_count
do_get_analog_data_asked(argsOk, mem, tbl, sz_obj, res, cont_count) ==
  IF ~argsOk THEN ArgError
  ELSE IF mem = "crash" THEN Crash(St0, 0)
  ELSE LET count == AsUint32(sz_obj)
           st == Invoke(tbl, St0, "GetAnalogData", count, res)
           chk == check_result_is_error(res, tbl, st)
       IN IF st.null # "none" THEN Crash(st, 1)
          ELSE IF chk.st.null # "none" THEN Crash(chk.st, 1)
          ELSE IF chk.isErr
            THEN Failure("NativeCallError", chk.st, chk.msg, 1, 1)
          ELSE Success(chk.st, 1, 0, 1,
                       [len |-> AnalogArrayLen(count),
                        cont_count |-> count])

do_get_analog_data(argsOk, mem, tbl, sz_obj, res, cont_count) ==
  IF ~argsOk THEN ArgError
  ELSE IF mem = "crash" THEN Crash(St0, 0)
  ELSE LET count == AsUint32(sz_obj)
           st == Invoke(tbl, St0, "GetAnalogData", count, res)
           chk == check_result_is_error(res, tbl, st)
       IN IF st.null # "none" THEN Crash(st, 1)
          ELSE IF chk.st.null # "none" THEN Crash(chk.st, 1)
          ELSE IF chk.isErr
            THEN Failure("NativeCallError", chk.st, chk.msg, 1, 1)
          ELSE Success(chk.st, 1, 0, 1,
                       [len |-> AnalogArrayLen(count),
                        cont_count |-> cont_count])

\* the argument kept for ns_GetSegmentData is buffer_size, the bytes of the
\* sources x count doubles (small enough here not to wrap its 32 bits)
do_get_segment_data(argsOk, mem, tbl, src_obj, sz_obj, res, time_stamp, sample_count, unit_id) ==
  IF ~argsOk THEN ArgError
  ELSE IF mem = "crash" THEN Crash(St0, 0)
  ELSE LET count == AsUint32(sz_obj)
           sources == AsUint32(src_obj)
           st == Invoke(tbl, St0, "GetSegmentData", sources * count * 8, res)
           chk == check_result_is_error(res, tbl, st)
       IN IF st.null # "none" THEN Crash(st, 1)
          ELSE IF chk.st.null # "none" THEN Crash(chk.st, 1)
          ELSE IF chk.isErr
            THEN Failure("NativeCallError", chk.st, chk.msg, 1, 1)
          ELSE Success(chk.st, 1, 0, 1,
                       [rows |-> sources, cols |-> count,
                        timestamp |-> DoubleToLong(time_stamp),
                        sample_count |-> sample_count,
                        unit_id |-> unit_id])

do_get_neural_data(argsOk, mem, tbl, sz_obj, res) ==
  IF ~argsOk THEN ArgError
  ELSE IF mem = "crash" THEN Crash(St0, 0)
  ELSE LET index_count == AsUint32(sz_obj)
           st == Invoke(tbl, St0, "GetNeuralData", index_count, res)
           chk == check_result_is_error(res, tbl, st)
       IN IF st.null # "none" THEN Crash(st, 1)
          ELSE IF chk.st.null # "none" THEN Crash(chk.st, 1)
          ELSE IF chk.isErr
            THEN Failure("NativeCallError", chk.st, chk.msg, 1, 1)
          ELSE Success(chk.st, 1, 0, 1, [len |-> index_count])

(* ------------------------------ the binding ---------------------------- *)

Init ==
  /\ lib = [h \in 1..MaxLibs |-> NoLib]
  /\ crashed = FALSE
  /\ last = NoCall
  /\ bigEndian \in BOOLEAN
  /\ dec = NoDec

\* the call is over: r is what the function did
Finish(op, h, argsOk, mem, in, r) ==
  /\ last' = [op |-> op, h |-> h, argsOk |-> argsOk,
              closedBefore |-> (h # 0 /\ lib[h].status = "freed"),
              derefFreed |-> (argsOk /\ mem # "live"),
              in |-> in] @@ r
  /\ crashed' = (r.result = "crash")
  /\ UNCHANGED <<bigEndian, dec>>

\* the interpreter is running the caller: no function of the module is
\* active and the process is alive
Idle == ~crashed /\ last.op = "none"

LibraryOpen ==
  /\ Idle
  /\ \E h \in 1..MaxLibs :
       /\ lib[h].status = "unused"
       /\ \A g \in 1..(h - 1) : lib[g].status # "unused"
       /\ \E parsed \in BOOLEAN, dlh \in BOOLEAN, miss \in MissingChoices :
            LET r == library_open(parsed, dlh, Symbols \ miss) IN
            /\ lib' = IF r.result = "ok"
                        THEN [lib EXCEPT ![h] = [status |-> "open",
                                                 table |-> r.out.table]]
                        ELSE lib
            /\ Finish("library_open", IF r.result = "ok" THEN h ELSE 0,
                      parsed, "live",
                      [dlh |-> dlh, exported |-> Symbols \ miss], r)

LibraryClose ==
  /\ Idle
  /\ \E h \in Held : \E argsOk \in BOOLEAN, mem \in Deref(lib[h].status),
        dlres \in BOOLEAN :
       LET r == library_close(argsOk, mem, dlres) IN
       /\ lib' = IF r.result = "ok" THEN [lib EXCEPT ![h].status = "freed"]
                 ELSE lib
       /\ Finish("library_close", h, argsOk, mem, [dlres |-> dlres], r)

GetLibraryInfo ==
  /\ Idle
  /\ \E h \in Held : \E argsOk \in BOOLEAN, mem \in Deref(lib[h].status),
        res \in Results :
       /\ Finish("get_library_info", h, argsOk, mem, <<>>,
                 do_get_library_info(argsOk, mem, lib[h].table, res))
       /\ UNCHANGED lib

OpenFile ==
  /\ Idle
  /\ \E h \in Held : \E argsOk \in BOOLEAN, mem \in Deref(lib[h].status),
        res \in Results, ires \in Results :
       /\ Finish("open_file", h, argsOk, mem, <<>>,
                 do_open_file(argsOk, mem, lib[h].table, res, ires))
       /\ UNCHANGED lib

CloseFile ==
  /\ Idle
  /\ \E h \in Held : \E argsOk \in BOOLEAN, mem \in Deref(lib[h].status),
        res \in Results :
       /\ Finish("close_file", h, argsOk, mem, <<>>,
                 do_close_file(argsOk, mem, lib[h].table, res))
       /\ UNCHANGED lib

GetEntityInfo ==
  /\ Idle
  /\ \E h \in Held : \E argsOk \in BOOLEAN, mem \in Deref(lib[h].status),
        res \in Results, etype \in EntityTypes, kres \in Results :
       \E n \in (IF etype = "SEGMENT" THEN 0..MaxSources ELSE {0}) :
         \E sres \in [1..n -> Results] :
           /\ Finish("get_entity_info", h, argsOk, mem,
                     [etype |-> etype, n |-> n],
                     do_get_entity_info(argsOk, mem, lib[h].table, res, etype,
                                        kres, n, sres))
           /\ UNCHANGED lib

GetEventData ==
  /\ Idle
  /\ \E h \in Held : \E argsOk \in BOOLEAN, mem \in Deref(lib[h].status),
        res \in Results, event_type \in EventTypes, data_size \in EventSizes,
        time_stamp \in {3} :
       \E buffer \in EventData(data_size), data_ret_size \in 0..data_size :
         /\ Finish("get_event_data", h, argsOk, mem,
                   [event_type |-> event_type, data_size |-> data_size,
                    buffer |-> buffer, data_ret_size |-> data_ret_size,
                    time_stamp |-> time_stamp],
                   do_get_event_data(argsOk, mem, lib[h].table, event_type,
                                     res, buffer, data_ret_size, time_stamp))
         /\ UNCHANGED lib

GetAnalogData ==
  /\ Idle
  /\ \E h \in Held : \E argsOk \in BOOLEAN, mem \in Deref(lib[h].status),
        res \in Results, sz_obj \in SampleArgs,
        cont_count \in 0..(MaxSamples + 1) :
       /\ Finish("get_analog_data", h, argsOk, mem,
                 [sz_obj |-> sz_obj, cont_count |-> cont_count],
                 do_get_analog_data(argsOk, mem, lib[h].table, sz_obj, res,
                                    cont_count))
       /\ UNCHANGED lib

GetSegmentData ==
  /\ Idle
  /\ \E h \in Held : \E argsOk \in BOOLEAN, mem \in Deref(lib[h].status),
        res \in Results, sz_obj \in SampleArgs, time_stamp \in TimeVals,
        sample_count \in {0, MaxSamples}, unit_id \in {0, 1} :
       /\ Finish("get_segment_data", h, argsOk, mem,
                 [src_obj |-> PyInt(0, MaxSources), sz_obj |-> sz_obj,
                  time_stamp |-> time_stamp, sample_count |-> sample_count,
                  unit_id |-> unit_id],
                 do_get_segment_data(argsOk, mem, lib[h].table,
                                     PyInt(0, MaxSources), sz_obj, res,
                                     time_stamp, sample_count, unit_id))
       /\ UNCHANGED lib

GetNeuralData ==
  /\ Idle
  /\ \E h \in Held : \E argsOk \in BOOLEAN, mem \in Deref(lib[h].status),
        res \in Results, sz_obj \in SampleArgs :
       /\ Finish("get_neural_data", h, argsOk, mem, [sz_obj |-> sz_obj],
                 do_get_neural_data(argsOk, mem, lib[h].table, sz_obj, res))
       /\ UNCHANGED lib

GetIndexByTime ==
  /\ Idle
  /\ \E h \in Held : \E argsOk \in BOOLEAN, mem \in Deref(lib[h].status),
        res \in Results :
       /\ Finish("get_index_by_time", h, argsOk, mem, <<>>,
                 do_get_index_by_time(argsOk, mem, lib[h].table, res))
       /\ UNCHANGED lib

GetTimeByIndex ==
  /\ Idle
  /\ \E h \in Held : \E argsOk \in BOOLEAN, mem \in Deref(lib[h].status),
        res \in Results :
       /\ Finish("get_time_by_index", h, argsOk, mem, <<>>,
                 do_get_time_by_index(argsOk, mem, lib[h].table, res))
       /\ UNCHANGED lib

\* the function returns to the interpreter, which hands the result (or
\* the exception) to the caller
Return ==
  /\ ~crashed
  /\ last.op # "none"
  /\ last' = NoCall
  /\ UNCHANGED <<lib, crashed, bigEndian, dec>>

Next ==
  \/ LibraryOpen
  \/ LibraryClose
  \/ GetLibraryInfo
  \/ OpenFile
  \/ CloseFile
  \/ GetEntityInfo
  \/ GetEventData
  \/ GetAnalogData
  \/ GetSegmentData
  \/ GetNeuralData
  \/ GetIndexByTime
  \/ GetTimeByIndex
  \/ Return

Spec == Init /\ [][Next]_vars

(* ------------------- the decoders on their own ------------------------- *)

InitDecode ==
  /\ lib = [h \in 1..MaxLibs |-> NoLib]
  /\ crashed = FALSE
  /\ last = NoCall
  /\ bigEndian \in BOOLEAN
  /\ \E d \in Buffers, w \in 0..MaxWidth :
       dec = [fn |-> "none", data |-> d, data_len |-> w, ret |-> Widen(0)]

Decode8 ==
  /\ dec.fn = "none"
  /\ dec' = [dec EXCEPT !.fn = "uint8_from_data",
                        !.ret = Widen(uint8_from_data(dec.data, dec.data_len))]
  /\ UNCHANGED <<lib, crashed, last, bigEndian>>

Decode16 ==
  /\ dec.fn = "none"
  /\ dec' = [dec EXCEPT !.fn = "uint16_from_data",
                        !.ret = Widen(uint16_from_data(dec.data, dec.data_len))]
  /\ UNCHANGED <<lib, crashed, last, bigEndian>>

Decode32 ==
  /\ dec.fn = "none"
  /\ dec' = [dec EXCEPT !.fn = "uint32_from_data",
                        !.ret = uint32_from_data(dec.data, dec.data_len)]
  /\ UNCHANGED <<lib, crashed, last, bigEndian>>

NextDecode == Decode8 \/ Decode16 \/ Decode32

SpecDecode == InitDecode /\ [][NextDecode]_vars

(* ----------------------------- C1, C2 ---------------------------------- *)

\* the operations that take a library handle, library_close aside
HandleOps ==
  {"get_library_info", "open_file", "close_file", "get_entity_info",
   "get_event_data", "get_analog_data", "get_segment_data",
   "get_neural_data", "get_index_by_time", "get_time_by_index"}

\* C1: a library_close on a handle that an earlier library_close has
\* released is rejected with a usage error and does not touch the released
\* record: no read of it, no dlclose, no free.
C1_SecondCloseRejected ==
  (last.op = "library_close" /\ last.argsOk /\ last.closedBefore) =>
    /\ last.result = "UsageError"
    /\ ~last.derefFreed
    /\ last.calls = <<>>
    /\ last.frees = 0

\* C2: every other operation given a handle that library_close has released
\* fails with a usage error before it reads the released record: no entry
\* point is read from it and no native call is made through it.
C2_UseAfterCloseRejected ==
  (last.op \in HandleOps /\ last.argsOk /\ last.closedBefore) =>
    /\ last.result = "UsageError"
    /\ ~last.derefFreed
    /\ last.calls = <<>>

(* ----------------------------- C3 -------------------------------------- *)

\* byte i of the first w bytes of data, counted from the least significant
\* byte in native byte order; 0 beyond the w bytes
ByteAt(data, w, i) ==
  IF i > w THEN 0
  ELSE IF bigEndian THEN data[w + 1 - i]
  ELSE data[i]

\* the unsigned integer the first w bytes of data form in native byte order
NativeValue(data, w) ==
  U32(ByteAt(data, w, 3) + TwoPow8 * ByteAt(data, w, 4),
      ByteAt(data, w, 1) + TwoPow8 * ByteAt(data, w, 2))

\* the return width of each decoder, in bytes
RetWidth(fn) ==
  IF fn = "uint8_from_data" THEN 1
  ELSE IF fn = "uint16_from_data" THEN 2
  ELSE 4

\* C3: each decoder returns, for a declared width in {1,2,4} that fits its
\* return width, the native-order unsigned value of the first w bytes, and
\* returns 0 for every other declared width.
C3_DecodersExact ==
  dec.fn # "none" =>
    /\ (dec.data_len \in {1, 2, 4} /\ dec.data_len <= RetWidth(dec.fn))
          => dec.ret = NativeValue(dec.data, dec.data_len)
    /\ dec.data_len \notin {1, 2, 4} => dec.ret = Widen(0)

(* ----------------------------- C4 -------------------------------------- *)

\* the width the event subtype stands for
SubtypeWidth(event_type) ==
  IF event_type = "BYTE" THEN 1
  ELSE IF event_type = "WORD" THEN 2
  ELSE 4

\* C4: when ns_GetEventData returns ns_OK for subtype Byte, Word or Dword and
\* has written the 1, 2 or 4 bytes of that subtype, the payload is the
\* unsigned integer those first bytes of the buffer form; for Dword that is
\* the 4 raw bytes read as a 32-bit unsigned integer.
C4_EventPayloadExact ==
  ( /\ last.op = "get_event_data"
    /\ last.result = "ok"
    /\ last.in.event_type \in {"BYTE", "WORD", "DWORD"}
    /\ last.in.data_ret_size = SubtypeWidth(last.in.event_type) ) =>
      /\ last.out.payload.kind = "int"
      /\ last.out.payload.val =
           NativeValue(last.in.buffer, SubtypeWidth(last.in.event_type))

(* ----------------------------- C5, C10 --------------------------------- *)

\* the positions in the trace of the calls of ns_GetSegmentSourceInfo
SourceCalls(calls) ==
  {i \in 1..Len(calls) : calls[i].fn = "GetSegmentSourceInfo"}

\* those of them that returned an error
FailedSourceCalls(calls) ==
  {i \in SourceCalls(calls) : calls[i].res # ns_OK}

\* C5: when ns_GetSegmentSourceInfo returns an error for a source, the whole
\* get_entity_info call fails with that source's error, no source is queried
\* after it and no mapping is returned.
C5_SourceFailureAborts ==
  (last.op = "get_entity_info" /\ FailedSourceCalls(last.calls) # {}) =>
    LET f == CHOOSE i \in FailedSourceCalls(last.calls) :
               \A j \in FailedSourceCalls(last.calls) : i <= j
    IN /\ last.result = "NativeCallError"
       /\ last.msg = [fn |-> "GetSegmentSourceInfo", arg |-> last.calls[f].arg]
       /\ \A j \in SourceCalls(last.calls) : j <= f
       /\ last.out = <<>>

\* C10: when get_entity_info succeeds for a Segment entity, SourceInfos has
\* SourceCount elements, element i is the descriptor the vendor library
\* returned for source id i, and the source ids were asked for once each, in
\* increasing order.
C10_SourceInfosComplete ==
  ( /\ last.op = "get_entity_info"
    /\ last.result = "ok"
    /\ last.out.EntityType = "SEGMENT" ) =>
      /\ last.out.hasSources
      /\ Len(last.out.SourceInfos) = last.out.SourceCount
      /\ \A i \in 0..(last.out.SourceCount - 1) :
           last.out.SourceInfos[i + 1] = SourceDict(i)
      /\ LET asked == SelectSeq(last.calls,
                        LAMBDA c : c.fn = "GetSegmentSourceInfo")
         IN /\ Len(asked) = last.out.SourceCount
            /\ \A k \in 1..Len(asked) :
                 asked[k].arg = k - 1 /\ asked[k].res = ns_OK

(* ----------------------------- C6 -------------------------------------- *)

\* the entry point each operation calls first
FirstFn(op) ==
  CASE op = "get_library_info" -> "GetLibraryInfo"
    [] op = "open_file" -> "OpenFile"
    [] op = "close_file" -> "CloseFile"
    [] op = "get_entity_info" -> "GetEntityInfo"
    [] op = "get_event_data" -> "GetEventData"
    [] op = "get_analog_data" -> "GetAnalogData"
    [] op = "get_segment_data" -> "GetSegmentData"
    [] op = "get_neural_data" -> "GetNeuralData"
    [] op = "get_index_by_time" -> "GetIndexByTime"
    [] op = "get_time_by_index" -> "GetTimeByIndex"

\* C6: no operation calls through an entry point that library_open left
\* null, the error translation with an unresolved GetLastErrorMsg included;
\* an operation whose entry point is unresolved fails with
\* SymbolMissingError.
C6_UnresolvedIsAnError ==
  /\ last.nullCall = "none"
  /\ ( /\ last.op \in HandleOps
       /\ last.argsOk
       /\ ~last.closedBefore
       /\ FirstFn(last.op) \notin lib[last.h].table )
       => last.result = "SymbolMissingError"

(* ----------------------------- C7 -------------------------------------- *)

\* C7: library_open fails exactly when dlopen fails.  When dlopen fails the
\* result is a load error, no symbol is looked up and no handle is made;
\* when dlopen succeeds a handle is returned that stores whatever resolved,
\* whichever entry points the library exports.
C7_OpenFailsIffLoaderFails ==
  (last.op = "library_open" /\ last.argsOk) =>
    /\ (last.result # "ok") <=> ~last.in.dlh
    /\ ~last.in.dlh =>
         /\ last.result = "LoadError"
         /\ last.h = 0
         /\ last.allocs = 0 /\ last.handed = 0
         /\ \A i \in 1..Len(last.calls) : last.calls[i].fn # "dlsym"
         /\ last.out = <<>>
    /\ last.in.dlh =>
         /\ last.result = "ok"
         /\ last.h \in Held
         /\ lib[last.h].status = "open"
         /\ lib[last.h].table = last.in.exported \cap Symbols

\* library_open has returned a handle for a library that lacks an entry point
C7_Witness ==
  /\ last.op = "library_open"
  /\ last.result = "ok"
  /\ last.in.dlh
  /\ last.in.exported # Symbols
  /\ lib[last.h].table # Symbols

(* ----------------------------- C8 -------------------------------------- *)

DataOps ==
  {"get_event_data", "get_analog_data", "get_segment_data", "get_neural_data"}

\* the get-data call of the operation returned an error
DataCallFailed ==
  /\ last.op \in DataOps
  /\ \E i \in 1..Len(last.calls) :
       last.calls[i].fn = FirstFn(last.op) /\ last.calls[i].res # ns_OK

\* C8: when the get-data call of a data accessor returns an error, the
\* operation returns an error and no array or payload, and the buffer or
\* array of the call has been released exactly once; a successful
\* get_event_data has released its buffer exactly once too; so once a call
\* has returned, the binding owns no buffer of it.
C8_BufferReleasedOnce ==
  /\ DataCallFailed =>
       /\ last.result = "NativeCallError"
       /\ last.out = <<>>
       /\ last.allocs = 1 /\ last.frees = 1 /\ last.handed = 0
  /\ (last.op = "get_event_data" /\ last.result = "ok") =>
       (last.allocs = 1 /\ last.frees = 1 /\ last.handed = 0)
  /\ (last.op \in DataOps /\ last.result # "crash") =>
       last.allocs = last.frees + last.handed

(* ----------------------------- C9 -------------------------------------- *)

\* C9 as claimed: a successful get_analog_data asked for N samples, N within
\* the 32 bits of the argument, returns an array of exactly N elements and a
\* contiguous count of at most N, whatever count the vendor library reports.
C9_ContiguousAtMostN ==
  ( /\ last.op = "get_analog_data"
    /\ last.result = "ok"
    /\ last.in.sz_obj.high = 0 ) =>
      /\ last.out.len = last.in.sz_obj.low
      /\ last.out.cont_count <= last.in.sz_obj.low

\* C9 as amended: a successful get_analog_data asked for N samples returns
\* an array of exactly N mod 2^32 elements, asks the vendor library for that
\* many samples and returns the contiguous count just as the vendor library
\* reported it; the count is at most the array length whenever the vendor
\* library reports no more than it was asked for.
C9_ContiguousAsReported ==
  (last.op = "get_analog_data" /\ last.result = "ok") =>
    /\ last.out.len = last.in.sz_obj.low
    /\ last.calls[1].fn = "GetAnalogData"
    /\ last.calls[1].arg = last.out.len
    /\ last.out.cont_count = last.in.cont_count
    /\ last.allocs = 1 /\ last.handed = 1

\* the vendor library has reported more contiguous samples than the array
\* of a successful get_analog_data holds
C9_Witness ==
  /\ last.op = "get_analog_data"
  /\ last.result = "ok"
  /\ last.in.cont_count > last.out.len
  /\ last.out.cont_count > last.out.len

(* ----------------------------- C11 ------------------------------------- *)

\* C11: a successful get_segment_data returns the time stamp, the sample
\* count and the unit id just as ns_GetSegmentData reported them; the time
\* stamp keeps its fraction, as the one get_event_data returns does.
C11_SegmentResultAsReported ==
  (last.op = "get_segment_data" /\ last.result = "ok") =>
    /\ last.out.timestamp = last.in.time_stamp
    /\ last.out.sample_count = last.in.sample_count
    /\ last.out.unit_id = last.in.unit_id

(* ----------------------------- C12 ------------------------------------- *)

\* C12: an operation that takes a library handle and is given an argument
\* of the wrong type fails with an argument error before any native entry
\* point is called and before any buffer or array is allocated; a native
\* call is made only once every argument has passed the type check.
C12_ValidationFirst ==
  (last.op \in HandleOps \cup {"library_close"}) =>
    /\ ~last.argsOk =>
         /\ last.result = "ArgumentError"
         /\ last.calls = <<>>
         /\ last.nullCall = "none"
         /\ last.allocs = 0 /\ last.frees = 0 /\ last.handed = 0
         /\ ~last.derefFreed
         /\ last.out = <<>>
    /\ (last.calls # <<>> \/ last.nullCall # "none" \/ last.allocs > 0)
         => last.argsOk

\* get_event_data has been refused for the type of an argument
C12_Witness ==
  /\ last.op = "get_event_data"
  /\ ~last.argsOk
  /\ last.result = "ArgumentError"

(* ----------------------------- C13 ------------------------------------- *)

\* the calls of the trace to entry point fn that returned ns_OK
OkCalls(calls, fn) ==
  {i \in 1..Len(calls) : calls[i].fn = fn /\ calls[i].res = ns_OK}

\* C13: when open_file reports failure the vendor library holds no file
\* that the call opened: every file a successful ns_OpenFile of the call
\* opened has been closed again by a later ns_CloseFile of the same call.
C13_FailedOpenLeavesNoFile ==
  (last.op = "open_file" /\ last.result \notin {"ok", "crash"}) =>
    \A i \in OkCalls(last.calls, "OpenFile") :
      \E j \in OkCalls(last.calls, "CloseFile") : j > i

(* ----------------------------- C14 ------------------------------------- *)

\* the positions in the trace of the calls of ns_GetLastErrorMsg
MsgCalls(calls) ==
  {i \in 1..Len(calls) : calls[i].fn = "GetLastErrorMsg"}

\* C14: in every operation ns_GetLastErrorMsg is called only to translate an
\* error status: at most once, and right after the native call that
\* returned the error, with no other entry point called in between; when
\* every native call of an operation returns ns_OK, ns_GetLastErrorMsg is
\* not called and the operation succeeds.
C14_MessageRightAfterFailure ==
  last.op \in HandleOps =>
    /\ Cardinality(MsgCalls(last.calls)) <= 1
    /\ \A j \in MsgCalls(last.calls) :
         /\ j > 1
         /\ last.calls[j - 1].fn # "GetLastErrorMsg"
         /\ last.calls[j - 1].res # ns_OK
         /\ last.msg = [fn |-> last.calls[j - 1].fn,
                        arg |-> last.calls[j - 1].arg]
    /\ ( /\ last.calls # <<>>
         /\ \A i \in 1..Len(last.calls) : last.calls[i].res = ns_OK )
         => (MsgCalls(last.calls) = {} /\ last.result = "ok")

(* ----------------------------- C15 ------------------------------------- *)

\* the calls of dlclose in the trace that reported failure
FailedUnloads(calls) ==
  {i \in 1..Len(calls) : calls[i].fn = "dlclose" /\ calls[i].res # ns_OK}

\* C15: when dlclose reports failure, library_close fails with an unload
\* error, frees nothing and leaves the handle record as it was; the record
\* is freed only in a call whose dlclose reported success.
C15_FailedUnloadKeepsRecord ==
  [][ (last.op = "none" /\ last'.op = "library_close") =>
        /\ FailedUnloads(last'.calls) # {} =>
             /\ last'.result = "UnloadError"
             /\ last'.frees = 0
             /\ lib' = lib
        /\ (last'.frees > 0 \/ lib' # lib) =>
             /\ last'.result = "ok"
             /\ OkCalls(last'.calls, "dlclose") # {}
             /\ FailedUnloads(last'.calls) = {} ]_vars

\* library_close has failed with an unload error on an open handle, whose
\* record is still open with its table
C15_Witness ==
  /\ last.op = "library_close"
  /\ last.result = "UnloadError"
  /\ ~last.closedBefore
  /\ FailedUnloads(last.calls) # {}
  /\ lib[last.h].status = "open"
  /\ lib[last.h].table # {}

(* ----------------------------- C16 ------------------------------------- *)

\* the subtypes the switch of do_get_event_data has a case for
KnownEventTypes == {"TEXT", "CSV", "BYTE", "WORD", "DWORD"}

\* get_event_data was called with a subtype outside the switch and the
\* native GetEventData call returned ns_OK
UnmatchedEventOk ==
  /\ last.op = "get_event_data"
  /\ last.in.event_type \notin KnownEventTypes
  /\ OkCalls(last.calls, "GetEventData") # {}

\* C16: when GetEventData returns ns_OK and the subtype is none of Text, CSV,
\* Byte, Word, Dword, get_event_data succeeds, returns the native timestamp
\* paired with None, and has freed its scratch buffer.
C16_UnmatchedSubtypeGivesNone ==
  UnmatchedEventOk =>
    /\ last.result = "ok"
    /\ last.msg = NoMsg
    /\ last.out.timestamp = last.in.time_stamp
    /\ last.out.payload = [kind |-> "None", val |-> <<>>]
    /\ last.allocs = 1 /\ last.frees = 1 /\ last.handed = 0

\* such a call has returned, with bytes in the buffer that go unused
C16_Witness ==
  /\ UnmatchedEventOk
  /\ last.result = "ok"
  /\ last.in.data_ret_size > 0
  /\ last.out.payload.kind = "None"

====
